---- MODULE Spec2Model ----
(***************************************************************************)
(* Model of h3's frame ingestion: FrameStream (poll_next / poll_data /      *)
(* try_recv), FrameDecoder::decode and Error::code from                     *)
(* src/h3/src/frame/mod.rs, composed with the receive side of a QUIC        *)
(* stream, the BufList chunk buffer and the frame codec.                    *)
(*                                                                         *)
(* Bytes are naturals 0..255.  A u64 is kept as an integer r, where a       *)
(* negative r stands for 2^64 + r (the value a wrapping subtraction        *)
(* leaves); the U64 operators below compare and subtract on that reading.  *)
(***************************************************************************)
EXTENDS Integers, Sequences, FiniteSets, TLC

VARIABLES
    frames,           \* what the peer writes: the frame descriptors, in order
    sent,             \* how many bytes of Wire the transport has received
    chunks,           \* in how many chunks it received them
    zero_len,         \* one of them was a zero-length chunk
    ready,            \* chunks the transport holds, not yet handed to try_recv
    closed,           \* "open", "fin" (clean end after ready), "err" (transport error)
    bufs,             \* FrameStream.bufs: BufList, a sequence of unconsumed chunks
    expected,         \* FrameStream.decoder.expected: Option<usize>
    remaining_data,   \* FrameStream.remaining_data: u64
    out,              \* every Ready result the caller has received, in order
    last,             \* the last call: its operation, its result, what it saw
    mode,             \* caller: "next", or "data" after a Data frame until poll_data gives None
    strict,           \* caller has never called poll_next in mode "data"
    waited,           \* some call found the transport not ready
    overflow_checks,  \* build profile: "on" panics on integer overflow, "off" wraps,
                      \* "unknown" until the first overflow shows which build runs
    stop_code         \* code handed to stream.stop_sending by reset, "" if none

vars == <<frames, sent, chunks, zero_len, ready, closed, bufs, expected, remaining_data, out, last,
          mode, strict, waited, overflow_checks, stop_code>>

(***************************************************************************)
(* Bounds                                                                  *)
(***************************************************************************)
MaxFrames == 3     \* frames the peer writes
MaxData == 2       \* declared length of a Data frame with payload
MaxChunks == 2     \* chunks the transport cuts the wire into
MaxAfter == 1      \* calls a caller still makes after an error or the end

Min(a, b) == IF a < b THEN a ELSE b

RECURSIVE Flatten(_)
Flatten(list) ==
    IF list = <<>> THEN <<>> ELSE Head(list) \o Flatten(Tail(list))

Drop(s, n) == SubSeq(s, n + 1, Len(s))
Take(s, n) == SubSeq(s, 1, n)

(***************************************************************************)
(* u64 arithmetic on the representation described above                    *)
(***************************************************************************)
U64Less(a, b) == IF (a < 0) = (b < 0) THEN a < b ELSE b < 0
\* cmp::min(r as usize, n) for a small n
MinUsize(r, n) == IF r < 0 THEN n ELSE Min(r, n)

(***************************************************************************)
(* Frame codec (proto::frame), varints as in QUIC                          *)
(***************************************************************************)
VarintLen(b) == IF b < 64 THEN 1 ELSE IF b < 128 THEN 2 ELSE IF b < 192 THEN 4 ELSE 8

RECURSIVE VarintValue(_, _)
VarintValue(s, i) ==
    IF i = 1 THEN s[1] % 64 ELSE VarintValue(s, i - 1) * 256 + s[i]

NoVar == [ok |-> FALSE, val |-> 0, n |-> 0]
GetVarOf(s, n) == IF Len(s) < n THEN NoVar ELSE [ok |-> TRUE, val |-> VarintValue(s, n), n |-> n]
\* Buf::get_var on the bytes s under the cursor
GetVar(s) == IF s = <<>> THEN NoVar ELSE GetVarOf(s, VarintLen(s[1]))

\* the two-byte form carries any value below 2^14, the one-byte form below 64
EncodeVar(v, wide) == IF wide THEN <<64 + (v \div 256), v % 256>> ELSE <<v>>

FrameTypeName(ty) ==
    CASE ty = 0 -> "Data"
      [] ty = 1 -> "Headers"
      [] ty = 4 -> "Settings"
      [] ty = 7 -> "GoAway"
      [] ty \in {2, 6, 8, 9} -> "Unsupported"
      [] OTHER -> "Unknown"

\* a settings payload is a list of (identifier, value) varint pairs
RECURSIVE SettingsOk(_)
SettingsValue(p, id, val) == val.ok /\ SettingsOk(Drop(p, id.n + val.n))
SettingsId(p, id) == id.ok /\ SettingsValue(p, id, GetVar(Drop(p, id.n)))
SettingsOk(p) == p = <<>> \/ SettingsId(p, GetVar(p))

\* a goaway payload is one varint
GoAwayOk(len, id) == id.ok /\ id.n = len

NoFrame == [ty |-> "", len |-> 0, payload |-> <<>>]
DataFrame(len) == [ty |-> "Data", len |-> len, payload |-> <<>>]

Decoded(kind, frame, pos, min, err) ==
    [kind |-> kind, frame |-> frame, pos |-> pos, min |-> min, err |-> err]

\* the frame made of a complete payload
FramePayload(name, len, payload, pos) ==
    CASE name = "Headers" ->
            Decoded("ok", [ty |-> name, len |-> len, payload |-> payload], pos, 0, "")
      [] name = "Settings" ->
            IF SettingsOk(payload)
            THEN Decoded("ok", [ty |-> name, len |-> len, payload |-> payload], pos, 0, "")
            ELSE Decoded("error", NoFrame, pos, 0, "Settings")
      [] name = "GoAway" ->
            IF GoAwayOk(len, GetVar(payload))
            THEN Decoded("ok", [ty |-> name, len |-> len, payload |-> payload], pos, 0, "")
            ELSE Decoded("error", NoFrame, pos, 0, "Malformed")
      [] name = "Unsupported" -> Decoded("error", NoFrame, pos, 0, "UnsupportedFrame")
      [] OTHER -> Decoded("unknown", NoFrame, pos, 0, "")

\* after the header of hdr bytes: a Data frame ends there, any other frame
\* needs its len payload bytes
FrameBody(s, name, hdr, len) ==
    IF name = "Data" THEN Decoded("ok", DataFrame(len), hdr, 0, "")
    ELSE IF Len(s) - hdr < len THEN Decoded("incomplete", NoFrame, hdr, hdr + len, "")
    ELSE FramePayload(name, len, SubSeq(s, hdr + 1, hdr + len), hdr + len)

FrameLength(s, ty, ln) ==
    IF ~ln.ok THEN Decoded("incomplete", NoFrame, ty.n, Len(s) + 1, "")
    ELSE FrameBody(s, FrameTypeName(ty.val), ty.n + ln.n, ln.val)

FrameType(s, ty) ==
    IF ~ty.ok THEN Decoded("incomplete", NoFrame, 0, Len(s) + 1, "")
    ELSE CHOOSE d \in {FrameLength(s, ty, ln) : ln \in {GetVar(Drop(s, ty.n))}} : TRUE

\* Frame::decode on the bytes under a cursor: kind is "ok", "unknown",
\* "incomplete" (min bytes are needed) or "error"; pos is the cursor
\* position afterwards
FrameDecode(s) == CHOOSE d \in {FrameType(s, ty) : ty \in {GetVar(s)}} : TRUE

\* Frame::encode of a descriptor, followed by the bytes written after it
Encode(f) == EncodeVar(f.ty, FALSE) \o EncodeVar(f.len, f.wide) \o f.body

RECURSIVE EncodeAll(_)
EncodeAll(fs) == IF fs = <<>> THEN <<>> ELSE Encode(Head(fs)) \o EncodeAll(Tail(fs))

Wire == EncodeAll(frames)

(***************************************************************************)
(* BufList (frame::buf)                                                    *)
(***************************************************************************)
BufNew == <<>>
BufPush(b, chunk) == Append(b, chunk)
BufRemaining(b) == Len(Flatten(b))
BufHasRemaining(b) == BufRemaining(b) > 0
\* the chunks that hold unconsumed bytes; a zero-length chunk holds none
BufUnconsumed(b) == SelectSeq(b, LAMBDA c : c # <<>>)
\* Buf::bytes: the contiguous unconsumed bytes at the read cursor, empty only
\* when nothing remains
BufBytes(b) == IF BufUnconsumed(b) = <<>> THEN <<>> ELSE Head(BufUnconsumed(b))

RECURSIVE BufAdvance(_, _)
BufAdvance(b, cnt) ==
    IF cnt = 0 THEN b
    ELSE IF Len(Head(b)) > cnt THEN <<Drop(Head(b), cnt)>> \o Tail(b)
    ELSE BufAdvance(Tail(b), cnt - Len(Head(b)))

\* what a cursor over the list reads: the bytes of all chunks in order
BufCursor(b) == Flatten(b)

(***************************************************************************)
(* Results handed to the caller                                            *)
(***************************************************************************)
Res(k, ty, sub, n, bytes) == [k |-> k, ty |-> ty, sub |-> sub, n |-> n, bytes |-> bytes]
RFrame(f) == Res("frame", f.ty, "", f.len, f.payload)   \* Ready(Ok(Some(frame)))
RData(d) == Res("data", "", "", Len(d), d)              \* Ready(Ok(Some(bytes)))
RNoData == Res("nodata", "", "", 0, <<>>)               \* poll_data: Ready(Ok(None))
REnd == Res("end", "", "", 0, <<>>)                     \* poll_next: Ready(Ok(None))
RPending == Res("pending", "", "", 0, <<>>)             \* Poll::Pending
RErr(kind, sub) == Res("err", kind, sub, 0, <<>>)       \* Ready(Err(kind(sub)))
RPanic(why) == Res("panic", why, "", 0, <<>>)           \* the call unwinds
RNone == Res("", "", "", 0, <<>>)                       \* no call yet

(***************************************************************************)
(* FrameDecoder                                                            *)
(***************************************************************************)
NoneExpected == [some |-> FALSE, min |-> 0]
SomeExpected(m) == [some |-> TRUE, min |-> m]

DecodeOut(res, frame, err, b, exp) ==
    [res |-> res, frame |-> frame, err |-> err, bufs |-> b, expected |-> exp]

\* the match of FrameDecoder::decode with the cursor's position committed
\* in the error arm as well
DecodeMatchCommitOnError(b, exp, d) ==
    CASE d.kind = "unknown" ->
            DecodeOut("none", NoFrame, "", BufAdvance(b, d.pos), NoneExpected)
      [] d.kind = "incomplete" ->
            DecodeOut("none", NoFrame, "", b, SomeExpected(d.min))
      [] d.kind = "error" ->
            DecodeOut("error", NoFrame, d.err, BufAdvance(b, d.pos), exp)
      [] OTHER ->
            DecodeOut("frame", d.frame, "", BufAdvance(b, d.pos), NoneExpected)

\* the match of FrameDecoder::decode with the hint left as it was when a
\* frame is returned
DecodeMatchKeepHint(b, exp, d) ==
    CASE d.kind = "unknown" ->
            DecodeOut("none", NoFrame, "", BufAdvance(b, d.pos), NoneExpected)
      [] d.kind = "incomplete" ->
            DecodeOut("none", NoFrame, "", b, SomeExpected(d.min))
      [] d.kind = "error" ->
            DecodeOut("error", NoFrame, d.err, b, exp)
      [] OTHER ->
            DecodeOut("frame", d.frame, "", BufAdvance(b, d.pos), exp)

\* the match on the codec's answer d in FrameDecoder::decode
DecodeMatch(b, exp, d) ==
    CASE d.kind = "unknown" ->
            DecodeOut("none", NoFrame, "", BufAdvance(b, d.pos), NoneExpected)
      [] d.kind = "incomplete" ->
            DecodeOut("none", NoFrame, "", b, SomeExpected(d.min))
      [] d.kind = "error" ->
            DecodeOut("error", NoFrame, d.err, b, exp)
      [] OTHER ->
            DecodeOut("frame", d.frame, "", BufAdvance(b, d.pos), NoneExpected)

\* FrameDecoder::decode with the hint compared by <= instead of <
FrameDecoderDecodeOffByOne(b, exp) ==
    IF ~BufHasRemaining(b) THEN DecodeOut("none", NoFrame, "", b, exp)
    ELSE IF exp.some /\ BufRemaining(b) <= exp.min THEN DecodeOut("none", NoFrame, "", b, exp)
    ELSE DecodeMatch(b, exp, FrameDecode(BufCursor(b)))

\* FrameDecoder::decode(src): res is "frame", "none" or "error"
FrameDecoderDecode(b, exp) ==
    IF ~BufHasRemaining(b) THEN DecodeOut("none", NoFrame, "", b, exp)
    ELSE IF exp.some /\ BufRemaining(b) < exp.min THEN DecodeOut("none", NoFrame, "", b, exp)
    ELSE CHOOSE o \in {DecodeMatch(b, exp, d) :
                        d \in {FrameDecode(s) : s \in {BufCursor(b)}}} : TRUE

(***************************************************************************)
(* FrameStream                                                             *)
(***************************************************************************)
\* RecvStream::poll_data of the transport: the next chunk it holds, else its
\* end or its error once that arrived, else not ready
StreamPollData(rdy, cl) ==
    IF rdy # <<>> THEN "chunk"
    ELSE IF cl = "fin" THEN "end"
    ELSE IF cl = "err" THEN "err"
    ELSE "pending"

TryRecvMatch(b, rdy, p) ==
    IF p = "chunk"
    THEN [poll |-> p, bufs |-> BufPush(b, Head(rdy)), ready |-> Tail(rdy)]
    ELSE [poll |-> p, bufs |-> b, ready |-> rdy]

\* FrameStream::try_recv: poll is "err", "pending", "end" (Ready(true)) or
\* "chunk" (Ready(false), the chunk pushed on bufs)
TryRecv(b, rdy, cl) == TryRecvMatch(b, rdy, StreamPollData(rdy, cl))

CallOut(res, b, exp, rdy, rem, recv) ==
    [res |-> res, bufs |-> b, expected |-> exp, ready |-> rdy, remaining |-> rem,
     recv |-> recv]

RECURSIVE PollNextLoop(_, _, _, _)

\* the match on the decoder's answer d in poll_next, r being try_recv's
PollNextMatch(r, d, cl) ==
    CASE d.res = "error" ->
            CallOut(RErr("Proto", d.err), d.bufs, d.expected, r.ready, 0, r.poll)
      [] d.res = "frame" /\ d.frame.ty = "Data" ->
            CallOut(RFrame(d.frame), d.bufs, d.expected, r.ready, d.frame.len, r.poll)
      [] d.res = "frame" /\ d.frame.ty # "Data" ->
            CallOut(RFrame(d.frame), d.bufs, d.expected, r.ready, 0, r.poll)
      [] d.res = "none" /\ r.poll = "chunk" ->
            PollNextLoop(d.bufs, d.expected, r.ready, cl)
      [] d.res = "none" /\ r.poll = "pending" ->
            CallOut(RPending, d.bufs, d.expected, r.ready, 0, r.poll)
      [] OTHER ->
            IF BufHasRemaining(d.bufs)
            THEN CallOut(RErr("UnexpectedEnd", ""), d.bufs, d.expected, r.ready, 0, r.poll)
            ELSE CallOut(REnd, d.bufs, d.expected, r.ready, 0, r.poll)

\* one pass of the loop after try_recv answered r
PollNextRecv(r, exp, cl) ==
    IF r.poll = "err" THEN CallOut(RErr("Quic", ""), r.bufs, exp, r.ready, 0, r.poll)
    ELSE CHOOSE c \in {PollNextMatch(r, d, cl) : d \in {FrameDecoderDecode(r.bufs, exp)}} : TRUE

\* the loop of FrameStream::poll_next, entered with remaining_data = 0
PollNextLoop(b, exp, rdy, cl) ==
    CHOOSE c \in {PollNextRecv(r, exp, cl) : r \in {TryRecv(b, rdy, cl)}} : TRUE

\* poll_next without its assertion
PollNextCallUnchecked(b, exp, rdy, cl, rem) == PollNextLoop(b, exp, rdy, cl)

\* FrameStream::poll_next: the assertion, then the loop
PollNextCall(b, exp, rdy, cl, rem) ==
    IF rem # 0
    THEN CallOut(RPanic("assert"), b, exp, rdy, rem, "")
    ELSE PollNextLoop(b, exp, rdy, cl)

\* chunk_len in the extraction loop
ChunkLen(read_size, data, chunk) == Min(read_size, Len(chunk))

\* the extraction loop of poll_data: while data.len() < read_size
RECURSIVE Extract(_, _, _)
ExtractChunk(b, data, read_size, chunk_len) ==
    Extract(BufAdvance(b, chunk_len), data \o Take(BufBytes(b), chunk_len), read_size)
Extract(b, data, read_size) ==
    IF ~(Len(data) < read_size) THEN [bufs |-> b, data |-> data]
    ELSE ExtractChunk(b, data, read_size, ChunkLen(read_size, data, BufBytes(b)))

\* the match on (data.len(), end) in poll_data, e being what was extracted
PollDataMatch(r, exp, rem, checks, e) ==
    CASE e.data = <<>> /\ r.poll = "end" -> CallOut(RNoData, e.bufs, exp, r.ready, rem, r.poll)
      [] e.data = <<>> /\ r.poll # "end" -> CallOut(RPending, e.bufs, exp, r.ready, rem, r.poll)
      [] e.data # <<>> /\ r.poll = "end" /\ U64Less(Len(e.data), rem) ->
            CallOut(RErr("UnexpectedEnd", ""), e.bufs, exp, r.ready, rem, r.poll)
      [] OTHER ->
            \* remaining_data -= x
            IF U64Less(rem, Len(e.data)) /\ checks
            THEN CallOut(RPanic("overflow"), e.bufs, exp, r.ready, rem, r.poll)
            ELSE CallOut(RData(e.data), e.bufs, exp, r.ready, rem - Len(e.data), r.poll)

\* poll_data after try_recv answered r
PollDataRecv(r, exp, rem, checks) ==
    CASE r.poll = "err" -> CallOut(RErr("Quic", ""), r.bufs, exp, r.ready, rem, r.poll)
      [] r.poll = "pending" -> CallOut(RPending, r.bufs, exp, r.ready, rem, r.poll)
      [] OTHER ->
            CHOOSE c \in {PollDataMatch(r, exp, rem, checks, e) :
                           e \in {Extract(r.bufs, <<>>, MinUsize(rem, BufRemaining(r.bufs)))}} :
                TRUE

\* FrameStream::poll_data
PollDataCall(b, exp, rdy, cl, rem, checks) ==
    IF rem = 0 THEN CallOut(RNoData, b, exp, rdy, rem, "")
    ELSE CHOOSE c \in {PollDataRecv(r, exp, rem, checks) : r \in {TryRecv(b, rdy, cl)}} : TRUE

\* Error::code with the UnexpectedEnd arm returning the Proto fallback's code
ErrorCodeFallback(e) ==
    CASE e.ty = "Quic" -> "GENERAL_PROTOCOL_ERROR"
      [] e.ty = "Proto" /\ e.sub = "Settings" -> "SETTINGS_ERROR"
      [] e.ty = "Proto" /\ e.sub = "UnsupportedFrame" -> "FRAME_UNEXPECTED"
      [] OTHER -> "FRAME_ERROR"

\* Error::code
ErrorCode(e) ==
    CASE e.ty = "Quic" -> "GENERAL_PROTOCOL_ERROR"
      [] e.ty = "Proto" /\ e.sub = "Settings" -> "SETTINGS_ERROR"
      [] e.ty = "Proto" /\ e.sub = "UnsupportedFrame" -> "FRAME_UNEXPECTED"
      [] e.ty = "Proto" -> "FRAME_ERROR"
      [] e.ty = "UnexpectedEnd" -> "GENERAL_PROTOCOL_ERROR"

(***************************************************************************)
(* What the peer may write                                                 *)
(***************************************************************************)
HeadersF == [ty |-> 1, wide |-> TRUE, len |-> 1, body |-> <<9>>]
DataF(l) == [ty |-> 0, wide |-> FALSE, len |-> l, body |-> [i \in 1..l |-> 200 + i]]
UnknownF == [ty |-> 33, wide |-> FALSE, len |-> 1, body |-> <<5>>]
SettingsBadF == [ty |-> 4, wide |-> FALSE, len |-> 1, body |-> <<1>>]
UnsupportedF == [ty |-> 2, wide |-> FALSE, len |-> 0, body |-> <<>>]
GoAwayBadF == [ty |-> 7, wide |-> FALSE, len |-> 0, body |-> <<>>]

Menu == {HeadersF, DataF(0), DataF(MaxData), UnknownF}
Rejected == {SettingsBadF, UnsupportedF, GoAwayBadF}

\* up to MaxFrames frames; one the codec rejects can only come last, since
\* nothing behind it is ever decoded
Streams ==
    UNION {[1..n -> Menu] : n \in 1..MaxFrames}
      \cup UNION {{Append(s, f) : s \in [1..n -> Menu], f \in Rejected} :
                    n \in 0..(MaxFrames - 1)}

(***************************************************************************)
(* The state machine                                                       *)
(***************************************************************************)
Panicked == last.res.k = "panic"

LastOf(op, res, recv) ==
    [op |-> op, res |-> res, recv |-> recv, rem |-> remaining_data,
     buffered |-> BufRemaining(bufs), hint |-> expected]

Init ==
    /\ frames \in Streams
    /\ sent = 0
    /\ chunks = 0
    /\ zero_len = FALSE
    /\ ready = <<>>
    /\ closed = "open"
    /\ bufs = BufNew
    /\ expected = NoneExpected
    /\ remaining_data = 0
    /\ out = <<>>
    /\ last = [op |-> "", res |-> RNone, recv |-> "", rem |-> 0, buffered |-> 0,
               hint |-> NoneExpected]
    /\ mode = "next"
    /\ strict = TRUE
    /\ waited = FALSE
    /\ overflow_checks = "unknown"
    /\ stop_code = ""

Terminal(r) == r.k \in {"err", "end"}
\* results received after the first error or end
After == Cardinality({i \in 1..Len(out) : \E j \in 1..(i - 1) : Terminal(out[j])})
\* the caller is alive and still polls this stream
CallerRuns == ~Panicked /\ stop_code = "" /\ After < MaxAfter

\* the transport receives the next k bytes of the wire as one chunk; a
\* chunk may be of zero length
Deliver(k) ==
    /\ CallerRuns
    /\ closed = "open"
    /\ chunks < MaxChunks
    /\ sent + k <= Len(Wire)
    /\ ready' = Append(ready, SubSeq(Wire, sent + 1, sent + k))
    /\ sent' = sent + k
    /\ chunks' = chunks + 1
    /\ zero_len' = (zero_len \/ k = 0)
    /\ UNCHANGED <<frames, closed, bufs, expected, remaining_data, out, last, mode,
                   strict, waited, overflow_checks, stop_code>>

\* the transport learns that the peer finished the stream ("fin"), wherever
\* the peer stopped writing, or that the stream failed ("err")
Close(how) ==
    /\ CallerRuns
    /\ closed = "open"
    /\ closed' = how
    /\ UNCHANGED <<frames, sent, chunks, zero_len, ready, bufs, expected, remaining_data,
                   out, last, mode, strict, waited, overflow_checks, stop_code>>

Record(op, c) ==
    /\ bufs' = c.bufs
    /\ expected' = c.expected
    /\ ready' = c.ready
    /\ remaining_data' = c.remaining
    /\ last' = LastOf(op, c.res, c.recv)
    /\ out' = IF c.res.k = "pending" THEN out ELSE Append(out, c.res)
    /\ waited' = (waited \/ c.recv = "pending")

PollNext ==
    /\ CallerRuns
    /\ \E c \in {PollNextCall(bufs, expected, ready, closed, remaining_data)} :
       /\ Record("poll_next", c)
       /\ mode' = IF c.res.k = "frame" /\ c.res.ty = "Data" THEN "data" ELSE "next"
    /\ strict' = (strict /\ mode = "next")
    /\ UNCHANGED <<frames, sent, chunks, zero_len, closed, overflow_checks, stop_code>>

PollData ==
    /\ CallerRuns
    /\ mode = "data"
    /\ \E checks \in BOOLEAN :
       \E c \in {PollDataCall(bufs, expected, ready, closed, remaining_data, checks)} :
         /\ overflow_checks \in {"unknown", IF checks THEN "on" ELSE "off"}
         /\ Record("poll_data", c)
         /\ mode' = IF c.res.k = "nodata" THEN "next" ELSE "data"
         \* an overflowing subtraction shows which build runs
         /\ overflow_checks' =
                IF c.res = RPanic("overflow") THEN "on"
                ELSE IF c.remaining < 0 /\ remaining_data >= 0 THEN "off"
                ELSE overflow_checks
    /\ UNCHANGED <<frames, sent, chunks, zero_len, closed, strict, stop_code>>

\* the caller aborts after an error: reset(err.code()) -> stream.stop_sending
Reset ==
    /\ last.res.k = "err"
    /\ stop_code = ""
    /\ stop_code' = ErrorCode(last.res)
    /\ UNCHANGED <<frames, sent, chunks, zero_len, ready, closed, bufs, expected,
                   remaining_data, out, last, mode, strict, waited, overflow_checks>>

Next ==
    \/ \E k \in 0..Len(Wire) : Deliver(k)
    \/ \E how \in {"fin", "err"} : Close(how)
    \/ PollNext
    \/ PollData
    \/ Reset

Spec == Init /\ [][Next]_vars

\* a caller that follows the protocol: poll_next, and after a Data frame
\* poll_data until it returns Ok(None)
CallerStep == (mode = "next" /\ PollNext) \/ PollData

\* the scheduler re-invokes the caller's operation as long as the caller runs
FairSpec == Spec /\ WF_vars(CallerStep)

(***************************************************************************)
(* Vocabulary of the properties                                            *)
(***************************************************************************)
IsPrefix(a, b) == Len(a) <= Len(b) /\ a = SubSeq(b, 1, Len(a))

\* consecutive payload slices joined into one result
RECURSIVE Merge(_)
Merge(o) ==
    IF Len(o) < 2 THEN o
    ELSE IF o[1].k = "data" /\ o[2].k = "data"
         THEN Merge(<<RData(o[1].bytes \o o[2].bytes)>> \o Drop(o, 2))
         ELSE <<o[1]>> \o Merge(Tail(o))

TerminalAt == {i \in 1..Len(out) : Terminal(out[i])}
Ended == Panicked \/ TerminalAt # {}
\* the results up to the first error or end
UpToEnd ==
    IF TerminalAt = {} THEN out
    ELSE Take(out, CHOOSE i \in TerminalAt : \A j \in TerminalAt : i <= j)

\* the frame the codec makes of a descriptor
FrameOf(f) ==
    RFrame([ty |-> FrameTypeName(f.ty), len |-> f.len,
            payload |-> IF f.ty = 0 THEN <<>> ELSE f.body])

\* what the frames fs are to yield to a caller that drains every payload
RECURSIVE Ideal(_)
Ideal(fs) ==
    IF fs = <<>> THEN <<>>
    ELSE LET f == Head(fs) IN
         (CASE FrameTypeName(f.ty) = "Unknown" -> <<>>
            [] f.ty = 0 /\ f.len = 0 -> <<FrameOf(f), RNoData>>
            [] f.ty = 0 /\ f.len # 0 -> <<FrameOf(f), RData(f.body), RNoData>>
            [] OTHER -> <<FrameOf(f)>>) \o Ideal(Tail(fs))

AllSent == sent = Len(Wire)

\* the last frame yielded, 0 if none, and the payload returned since
FrameAt == {i \in 1..Len(out) : out[i].k = "frame"}
LastFrameIdx == IF FrameAt = {} THEN 0 ELSE CHOOSE i \in FrameAt : \A j \in FrameAt : j <= i
RECURSIVE Collected(_)
Collected(i) ==
    IF i > Len(out) \/ out[i].k # "data" THEN <<>> ELSE out[i].bytes \o Collected(i + 1)

(***************************************************************************)
(* C4.  Truncated payload: when poll_data is called with remaining_data    *)
(* > 0, the transport signals clean end and fewer bytes than               *)
(* remaining_data are buffered (none included), poll_data returns          *)
(* Err(UnexpectedEnd), never Ok(None).                                     *)
(***************************************************************************)
C4_TruncatedPayload ==
    (last.op = "poll_data" /\ last.recv = "end" /\ last.rem > 0
        /\ last.buffered < last.rem)
    => last.res = RErr("UnexpectedEnd", "")

(***************************************************************************)
(* C6.  poll_next with remaining_data > 0 fails with the assertion and     *)
(* leaves the transport, the chunk buffer, the decoder and remaining_data  *)
(* as they were.                                                           *)
(***************************************************************************)
C6_FailFast ==
    [][(remaining_data # 0 /\ PollNext)
        => (last'.res = RPanic("assert")
            /\ UNCHANGED <<ready, bufs, expected, remaining_data>>)]_vars

C6_Witness ==
    /\ last.op = "poll_next" /\ last.res = RPanic("assert")
    /\ remaining_data > 0 /\ BufHasRemaining(bufs)

(***************************************************************************)
(* C7.  Unknown frame skip: for the stream 'Headers, unknown, Headers',    *)
(* all of it delivered, however chunked and whenever the end arrives, the  *)
(* results are the two Headers frames and then the end, and no error.      *)
(***************************************************************************)
C7_UnknownSkipped ==
    (frames = <<HeadersF, UnknownF, HeadersF>> /\ AllSent /\ closed # "err")
    => IsPrefix(out, <<FrameOf(HeadersF), FrameOf(HeadersF), REnd, REnd>>)

(***************************************************************************)
(* C10.  poll_data called with remaining_data > 0 and a non-empty chunk    *)
(* buffer returns payload bytes even when the transport is not ready; it   *)
(* returns Pending only when nothing was buffered.                         *)
(***************************************************************************)
C10_BufferedPayloadReturned ==
    /\ (last.op = "poll_data" /\ last.rem # 0 /\ last.buffered > 0
            /\ last.recv = "pending")
       => last.res.k = "data"
    /\ (last.op = "poll_data" /\ last.res = RPending) => last.buffered = 0

(***************************************************************************)
(* C1.  Chunking invariance: for a stream of frames the codec accepts,     *)
(* all of it delivered in non-empty chunks and then ended cleanly, with the transport ready    *)
(* at every call, a caller that drains every payload receives up to the    *)
(* end the results it receives when the same bytes come as one chunk       *)
(* (payload slices joined).                                                *)
(***************************************************************************)
\* the caller's results when the bytes w are one chunk and the end follows
RECURSIVE SingleRun(_, _, _, _, _, _)
SingleRun(b, exp, rdy, rem, md, acc) ==
    LET c == IF md = "next"
             THEN PollNextCall(b, exp, rdy, "fin", rem)
             ELSE PollDataCall(b, exp, rdy, "fin", rem, TRUE)
        md2 == IF md = "next"
               THEN (IF c.res.k = "frame" /\ c.res.ty = "Data" THEN "data" ELSE "next")
               ELSE (IF c.res.k = "nodata" THEN "next" ELSE "data")
    IN IF Terminal(c.res) \/ c.res.k \in {"panic", "pending"}
       THEN Append(acc, c.res)
       ELSE SingleRun(c.bufs, c.expected, c.ready, c.remaining, md2, Append(acc, c.res))

SingleChunk(w) == SingleRun(BufNew, NoneExpected, <<w>>, 0, "next", <<>>)

Accepted == \A i \in 1..Len(frames) : frames[i] \in Menu

C1_ChunkingInvariance ==
    (Accepted /\ AllSent /\ ~zero_len /\ closed = "fin" /\ strict /\ ~waited /\ Ended)
    => Merge(UpToEnd) = Merge(SingleChunk(Wire))

(***************************************************************************)
(* C2.  Payload exactness: after Data{len: L} is yielded, with the whole   *)
(* stream delivered, the slices poll_data returns are, joined, a prefix    *)
(* of the L bytes behind the Data header, poll_data does not overflow,     *)
(* and once it returns Ok(None) they are exactly those L bytes.            *)
(***************************************************************************)
DataFrames == SelectSeq(frames, LAMBDA f : f.ty = 0)
\* how many Data frames were yielded up to out[i]
DataOrdinal(i) == Cardinality({j \in 1..i : out[j].k = "frame" /\ out[j].ty = "Data"})

C2_PayloadExact ==
    LET i == LastFrameIdx IN
    (i # 0 /\ out[i].ty = "Data" /\ DataOrdinal(i) <= Len(DataFrames)
        /\ AllSent /\ closed # "err")
    => LET body == DataFrames[DataOrdinal(i)].body
           got == Collected(i + 1)
           j == i + 1 + Cardinality({n \in (i + 1)..Len(out) : out[n].k = "data"})
       IN /\ IsPrefix(got, body)
          /\ last.res # RPanic("overflow")
          /\ (j <= Len(out) /\ out[j] = RNoData) => got = body

(***************************************************************************)
(* C3.  Ordering and resynchronisation: for 'Headers, Data{L}, L payload   *)
(* bytes, Headers', all delivered and ended cleanly, a caller that drains  *)
(* the payload receives the first frame, Data{L}, the L payload bytes and  *)
(* the trailing frame, in that order.                                      *)
(***************************************************************************)
FullRequest == <<HeadersF, DataF(MaxData), HeadersF>>

C3_FullRequestOrder ==
    (frames = FullRequest /\ AllSent /\ closed = "fin" /\ strict /\ Ended)
    => Merge(UpToEnd) = Ideal(FullRequest) \o <<REnd>>

(***************************************************************************)
(* C5.  Truncated frame: when the bytes delivered before the clean end     *)
(* are complete frames followed by a frame encoding without its last       *)
(* byte, the caller receives the complete frames and then                  *)
(* Err(UnexpectedEnd); and poll_next never returns Ok(None) with bytes     *)
(* left in the chunk buffer.                                               *)
(***************************************************************************)
LastFrame == frames[Len(frames)]
\* the wire ends with a frame's encoding: not with payload bytes of a Data frame
EndsWithFrame == LastFrame.ty # 0 \/ LastFrame.len = 0
Front(fs) == SubSeq(fs, 1, Len(fs) - 1)

C5_TruncatedFrame ==
    /\ (EndsWithFrame /\ sent = Len(Wire) - 1 /\ closed = "fin" /\ strict /\ Ended)
       => Merge(UpToEnd) = Ideal(Front(frames)) \o <<RErr("UnexpectedEnd", "")>>
    /\ (last.op = "poll_next" /\ last.res = REnd) => ~BufHasRemaining(bufs)

(***************************************************************************)
(* C8.  remaining_data > 0 exactly when the last frame yielded is a Data   *)
(* frame of which less than len payload bytes were returned, and then it   *)
(* is len minus the bytes returned.                                        *)
(***************************************************************************)
C8_RemainingData ==
    LET i == LastFrameIdx
        returned == Len(Flatten([j \in 1..(Len(out) - i) |->
                                    IF out[i + j].k = "data" THEN out[i + j].bytes ELSE <<>>]))
        draining == i # 0 /\ out[i].ty = "Data" /\ returned < out[i].n
    IN /\ (remaining_data # 0) <=> draining
       /\ draining => remaining_data = out[i].n - returned

(***************************************************************************)
(* C9.  Error::code follows the table: Quic and UnexpectedEnd give         *)
(* GENERAL_PROTOCOL_ERROR, a Proto settings error SETTINGS_ERROR, a Proto  *)
(* unsupported-frame error FRAME_UNEXPECTED, any other Proto error         *)
(* FRAME_ERROR.                                                            *)
(***************************************************************************)
TableCode(e) ==
    IF e.ty \in {"Quic", "UnexpectedEnd"} THEN "GENERAL_PROTOCOL_ERROR"
    ELSE IF e.sub = "Settings" THEN "SETTINGS_ERROR"
    ELSE IF e.sub = "UnsupportedFrame" THEN "FRAME_UNEXPECTED"
    ELSE "FRAME_ERROR"

C9_CodeTable == stop_code # "" => stop_code = TableCode(last.res)

C9_Witness == stop_code = "GENERAL_PROTOCOL_ERROR" /\ last.res = RErr("UnexpectedEnd", "")

(***************************************************************************)
(* C11.  Suspension implies a registered wake-up: poll_next and poll_data  *)
(* return Pending only in a call whose transport read returned Pending     *)
(* (not after a chunk, a zero-length one included, the end or an error),   *)
(* and a call whose transport read was not ready reports no transport      *)
(* error and no unexpected end.                                            *)
(***************************************************************************)
C11_PendingHasWaker ==
    /\ last.res = RPending => last.recv = "pending"
    /\ (last.recv = "pending" /\ last.res.k = "err") => last.res.ty = "Proto"

(***************************************************************************)
(* C12.  Retry after skip: poll_next decodes again after the decoder       *)
(* skipped an unknown frame, so it returns neither Pending nor             *)
(* Err(UnexpectedEnd) while the chunk buffer starts with a complete        *)
(* frame of a known type.                                                  *)
(***************************************************************************)
\* the chunk buffer starts with a frame the codec decodes
KnownFrameBuffered == BufHasRemaining(bufs) /\ FrameDecode(BufCursor(bufs)).kind = "ok"

C12_RetryAfterSkip ==
    (last.op = "poll_next" /\ last.res \in {RPending, RErr("UnexpectedEnd", "")})
    => ~KnownFrameBuffered

(***************************************************************************)
(* C13.  Graceful end: poll_next returns Ok(None) only in a call in which  *)
(* the transport signalled the clean end and which leaves the chunk        *)
(* buffer empty; a call that saw the end and leaves bytes it cannot        *)
(* decode returns Err(UnexpectedEnd); and a call that saw the end reports  *)
(* neither the end nor an unexpected end while a complete frame is         *)
(* buffered: the frame is yielded first.                                   *)
(***************************************************************************)
\* the last call was a poll_next whose transport read signalled the clean end
SawEnd == last.op = "poll_next" /\ last.recv = "end"

C13_EndOnlyWhenDrained ==
    (last.op = "poll_next" /\ last.res = REnd) => (SawEnd /\ ~BufHasRemaining(bufs))

C13_PartialFrameIsError ==
    (SawEnd /\ last.res.k # "frame" /\ BufHasRemaining(bufs)
        /\ FrameDecode(BufCursor(bufs)).kind = "incomplete")
    => last.res = RErr("UnexpectedEnd", "")

C13_GracefulEnd ==
    /\ C13_EndOnlyWhenDrained
    /\ C13_PartialFrameIsError
    /\ (SawEnd /\ last.res \in {REnd, RErr("UnexpectedEnd", "")}) => ~KnownFrameBuffered

(***************************************************************************)
(* C14.  Errors are terminal: after poll_next or poll_data returned an     *)
(* error, no later call returns a frame, payload bytes, 'no more frames'   *)
(* or 'no more payload'.                                                   *)
(***************************************************************************)
Success(r) == r.k \in {"frame", "data", "nodata", "end"}

C14_ErrorsTerminal ==
    \A i \in 1..Len(out) : \A j \in (i + 1)..Len(out) : out[i].k = "err" => ~Success(out[j])

(***************************************************************************)
(* C15.  The expected-minimum hint is a pure optimisation: at every        *)
(* decode poll_next makes, the decoder with its hint returns the result    *)
(* and consumes the bytes that a decoder which always parses returns and   *)
(* consumes; the buffers of the two therefore stay equal over any          *)
(* sequence of pushes and decodes.                                         *)
(***************************************************************************)
\* a decoder that ignores the hint and always attempts the parse
FrameDecoderDecodeNoHint(b, exp) ==
    IF ~BufHasRemaining(b) THEN DecodeOut("none", NoFrame, "", b, exp)
    ELSE DecodeMatch(b, exp, FrameDecode(BufCursor(b)))

\* the buffer the next decode of poll_next works on: try_recv pushes the
\* chunk the transport holds, if any
DecodePoint == IF ready # <<>> THEN BufPush(bufs, Head(ready)) ELSE bufs

SameOutcome(o1, o2) ==
    /\ o1.res = o2.res /\ o1.frame = o2.frame /\ o1.err = o2.err
    /\ Flatten(o1.bufs) = Flatten(o2.bufs)

C15_HintIsOptimisation ==
    remaining_data = 0
    => SameOutcome(FrameDecoderDecode(DecodePoint, expected),
                   FrameDecoderDecodeNoHint(DecodePoint, expected))

\* the last poll_next took the fast path: it was entered with a hint and
\* fewer bytes than the hint asks for, and received no further byte
C15_Witness ==
    /\ last.op = "poll_next" /\ last.recv \in {"pending", "end"}
    /\ last.hint.some /\ 0 < last.buffered /\ last.buffered < last.hint.min
    /\ BufRemaining(bufs) = last.buffered /\ expected = last.hint

(***************************************************************************)
(* C16.  The speculative parse commits only on success or skip: at every   *)
(* decode poll_next makes, a decode that returns none for an empty         *)
(* buffer, for the hint's fast path or for a frame the codec finds         *)
(* incomplete, and a decode that returns an error, leave the unconsumed    *)
(* bytes as they were; a decode that returns a frame or skips an unknown   *)
(* frame removes exactly the bytes the codec's cursor passed (for Data     *)
(* the header only) and clears the hint.                                   *)
(***************************************************************************)
\* the decode at DecodePoint reaches the codec
Parses(b, exp) == BufHasRemaining(b) /\ ~(exp.some /\ BufRemaining(b) < exp.min)

CommitsOnlyParsed(b, exp, o, d) ==
    LET commits == Parses(b, exp) /\ d.kind \in {"ok", "unknown"} IN
    /\ commits => /\ Flatten(o.bufs) = Drop(Flatten(b), d.pos)
                  /\ o.expected = NoneExpected
                  /\ o.res = (IF d.kind = "ok" THEN "frame" ELSE "none")
    /\ ~commits => (Flatten(o.bufs) = Flatten(b) /\ o.res \in {"none", "error"})
    /\ (o.res = "frame" /\ o.frame.ty = "Data")
          => BufRemaining(o.bufs) = BufRemaining(b) - Len(Encode(DataF(0)))

C16_CommitOnSuccessOrSkip ==
    remaining_data = 0
    => CommitsOnlyParsed(DecodePoint, expected, FrameDecoderDecode(DecodePoint, expected),
                         FrameDecode(BufCursor(DecodePoint)))

\* poll_next yielded a Data frame whose header came in two chunks: the hint
\* is cleared and payload bytes stay buffered
C16_Witness ==
    /\ last.op = "poll_next" /\ last.res.k = "frame" /\ last.res.ty = "Data"
    /\ last.res.n > 0 /\ last.hint.some /\ expected = NoneExpected
    /\ BufHasRemaining(bufs)

(***************************************************************************)
(* C17.  No over-extraction and no underflow in poll_data: the bytes a     *)
(* call returns are at most remaining_data as the call found it, the       *)
(* subtraction remaining_data -= x neither panics nor wraps.               *)
(***************************************************************************)
C17_NoOverExtraction ==
    last.op = "poll_data"
    => /\ last.res # RPanic("overflow")
       /\ last.res.k = "data" => ~U64Less(last.rem, last.res.n)
       /\ last.rem >= 0 => remaining_data >= 0

(***************************************************************************)
(* C18.  'No more payload' re-enables poll_next: when poll_data returns    *)
(* Ok(None), remaining_data is 0 afterwards, and a caller that calls       *)
(* poll_next only at the start and after poll_data returned Ok(None)       *)
(* never triggers the assertion of poll_next.                              *)
(***************************************************************************)
C18_NoneReenablesNext ==
    /\ (last.op = "poll_data" /\ last.res = RNoData) => remaining_data = 0
    /\ strict => last.res # RPanic("assert")

(***************************************************************************)
(* C20.  The decoder hint is never stale: when decoder.expected is         *)
(* Some(min), the chunk buffer starts with the bytes of a frame for which  *)
(* the codec reports Incomplete(min): none of them was consumed since;     *)
(* and decoder.expected is None whenever remaining_data is not 0.          *)
(***************************************************************************)
\* the codec reports Incomplete(min) for the first n bytes of the buffer
IncompleteAt(n, min) ==
    \E d \in {FrameDecode(Take(BufCursor(bufs), n))} : d.kind = "incomplete" /\ d.min = min

C20_HintNeverStale ==
    /\ expected.some => \E n \in 1..BufRemaining(bufs) : IncompleteAt(n, expected.min)
    /\ remaining_data # 0 => expected = NoneExpected

\* a hint set for the frame behind a Data frame whose payload poll_data
\* returned
C20_Witness ==
    /\ expected.some /\ BufHasRemaining(bufs)
    /\ \E i \in 1..Len(out) : out[i].k = "data"

(***************************************************************************)
(* C19.  Progress to a terminal outcome: when the transport delivers its   *)
(* chunks and then the clean end, a caller that follows the protocol and   *)
(* is re-invoked by the scheduler eventually obtains Ok(None) from         *)
(* poll_next or an error; it is not stopped by a panic on the way.         *)
(***************************************************************************)
\* the caller obtained Ok(None) from poll_next or an error
Outcome == \E i \in 1..Len(out) : Terminal(out[i])

C19_Progress == (<>(closed = "fin") /\ []strict) => <>Outcome

====
